---- MODULE Spec2Model ----
(***************************************************************************)
(* State validity checking for sampling-based planning:                    *)
(* ompl_interface::StateValidityChecker and                                *)
(* ompl_interface::ConstrainedPlanningStateValidityChecker.                *)
(*                                                                         *)
(* One planner State (with its embedded cache block) is evaluated by a     *)
(* Basic checker and a Constrained checker against one planning scene.     *)
(* The outcomes of the external collaborators for the configuration of     *)
(* that State (bounds, path constraints, feasibility, NaN joints,          *)
(* collision, distance) are drawn in Init and stay fixed.  Doubles are     *)
(* modelled by integers, +infinity by a value above every distance.        *)
(*                                                                         *)
(* Spec takes each call as one step.  SpecConc runs two planner workers,   *)
(* each with a checker of its own, on the one State: a call there is the   *)
(* cache lookup followed, on a miss, by the evaluation that marks the      *)
(* State.                                                                  *)
(***************************************************************************)
EXTENDS Integers, Sequences, FiniteSets, TLC

VARIABLES scene, cache, verbose_, robot_state, last, workers

vars == <<scene, cache, verbose_, robot_state, last, workers>>

\* ---------------------------------------------------------------- bounds
MaxDist == 1
MaxSources == 2

\* finite distances a collaborator may report or a caller may hold
Dist == (0 - 1) .. MaxDist

\* std::numeric_limits<double>::infinity(): above every finite distance
infinity == MaxDist + 1

\* ------------------------------------------------- the State's cache block
\* ModelBasedStateSpace::StateType: flags and distance
UnknownCache ==
    [validity_known |-> FALSE, marked_valid |-> FALSE,
     distance_known |-> FALSE, distance |-> 0]

isValidityKnown(c) == c.validity_known

isMarkedValid(c) == c.marked_valid

isGoalDistanceKnown(c) == c.distance_known

markValid(c) == [c EXCEPT !.validity_known = TRUE, !.marked_valid = TRUE]

markInvalid(c) == [c EXCEPT !.validity_known = TRUE, !.marked_valid = FALSE]

markInvalidDist(c, d) ==
    markInvalid([c EXCEPT !.distance = d, !.distance_known = TRUE])

\* ------------------------------------------- collision request templates
\* collision_detection::CollisionRequest as default-constructed
CollisionRequest == [distance |-> FALSE, cost |-> FALSE, verbose |-> FALSE]

collision_request_simple_ == CollisionRequest

collision_request_with_distance_ == [CollisionRequest EXCEPT !.distance = TRUE]

collision_request_with_cost_ == [CollisionRequest EXCEPT !.cost = TRUE]

collision_request_simple_verbose_ ==
    [collision_request_simple_ EXCEPT !.verbose = TRUE]

\* variant: the copy is never switched to verbose
collision_request_with_distance_verbose_Plain ==
    collision_request_with_distance_

collision_request_with_distance_verbose_ ==
    [collision_request_with_distance_ EXCEPT !.verbose = TRUE]

\* ------------------------------------------------ external collaborators
\* cost sources a cost-mode collision query may report
CostSource == {[cost |-> 1, volume |-> 2], [cost |-> 2, volume |-> 3]}

CostSourceSeqs ==
    UNION {[1 .. n -> CostSource] : n \in 0 .. MaxSources}

getVolume(cs) == cs.volume

\* path constraints: absent, or a set with the outcome of decide()
NoKset == [attached |-> FALSE, satisfied |-> TRUE, distance |-> 0]

Ksets ==
    {NoKset} \cup [attached : {TRUE}, satisfied : BOOLEAN, distance : Dist]

Scenes ==
    [bounds : BOOLEAN, wrapped_bounds : BOOLEAN, kset : Ksets,
     feasible : BOOLEAN, hasNaN : BOOLEAN, collision : BOOLEAN,
     distance : Dist]

\* si_->satisfiesBounds(state) resp. si_->satisfiesBounds(wrapped_state)
satisfiesBounds(sc, rep) ==
    IF rep = "wrapped_state" THEN sc.wrapped_bounds ELSE sc.bounds

\* kset->decide(*robot_state, verbose)
decide(sc) == [satisfied |-> sc.kset.satisfied, distance |-> sc.kset.distance]

\* getPlanningScene()->isStateFeasible(*robot_state, verbose)
isStateFeasible(sc) == sc.feasible

\* getPlanningScene()->checkCollision(req, res, *robot_state)
checkCollision(sc, req, srcs) ==
    [collision |-> sc.collision, distance |-> sc.distance,
     cost_sources |-> IF req.cost THEN srcs ELSE <<>>]

\* records of the collaborator invocations one call makes, in order
CallBounds(rep) == [op |-> "satisfiesBounds", arg |-> rep]

CallCopy(rep) == [op |-> "copyToRobotState", arg |-> rep]

CallDecide(verbose) == [op |-> "decide", verbose |-> verbose]

CallFeasible(verbose) == [op |-> "isStateFeasible", verbose |-> verbose]

CallJoints == [op |-> "copyJointGroupPositions"]

CallCollision(req) == [op |-> "checkCollision", req |-> req]

\* what one isValid call yields: return value, the dist output, the cache
\* block it leaves and the invocations it made
Outcome(ret, dist, c, calls) ==
    [ret |-> ret, dist |-> dist, cache |-> c, calls |-> calls]


\* ---------------------------------- StateValidityChecker::isValid(state, verbose)
\* collision avoidance, behind the NaN guard.  The value returned is read
\* from the `res` that is in scope outside the guarded block (set to
\* "collision" before the guard); the query fills the block's own `res`.
isValid_Collision(sc, c, verbose, calls) ==
    LET outer_res == [collision |-> TRUE]
        calls1 == Append(calls, CallJoints)
    IN  IF ~sc.hasNaN
        THEN LET req == IF verbose THEN collision_request_simple_verbose_
                                   ELSE collision_request_simple_
                 res == checkCollision(sc, req, <<>>)
                 c1 == IF ~res.collision THEN markValid(c) ELSE markInvalid(c)
             IN  Outcome(~outer_res.collision, 0, c1,
                         Append(calls1, CallCollision(req)))
        ELSE Outcome(~outer_res.collision, 0, c, calls1)

isValid_Feasibility(sc, c, verbose, calls) ==
    LET calls1 == Append(calls, CallFeasible(verbose))
    IN  IF ~isStateFeasible(sc)
        THEN Outcome(FALSE, 0, markInvalid(c), calls1)
        ELSE isValid_Collision(sc, c, verbose, calls1)

isValid_Constraints(sc, c, verbose, calls) ==
    IF sc.kset.attached
    THEN LET calls1 == Append(calls, CallDecide(verbose))
         IN  IF ~decide(sc).satisfied
             THEN Outcome(FALSE, 0, markInvalid(c), calls1)
             ELSE isValid_Feasibility(sc, c, verbose, calls1)
    ELSE isValid_Feasibility(sc, c, verbose, calls)

isValid_Bounds(sc, c, verbose, calls) ==
    LET calls1 == Append(calls, CallBounds("state"))
    IN  IF ~satisfiesBounds(sc, "state")
        THEN Outcome(FALSE, 0, markInvalid(c), calls1)
        ELSE isValid_Constraints(sc, c, verbose,
                                 Append(calls1, CallCopy("state")))

isValid(sc, c, verbose) ==
    IF isValidityKnown(c)
    THEN Outcome(isMarkedValid(c), 0, c, <<>>)
    ELSE isValid_Bounds(sc, c, verbose, <<>>)

\* ---------------------------- StateValidityChecker::isValid(state, dist, verbose)
isValidDist_Collision(sc, c, dist, verbose, calls) ==
    LET req == IF verbose THEN collision_request_with_distance_verbose_
                          ELSE collision_request_with_distance_
        res == checkCollision(sc, req, <<>>)
    IN  Outcome(~res.collision, res.distance, c,
                Append(calls, CallCollision(req)))

\* variant: the infeasible branch returns without assigning dist
isValidDist_FeasibilityKeepsDist(sc, c, dist, verbose, calls) ==
    LET calls1 == Append(calls, CallFeasible(verbose))
    IN  IF ~isStateFeasible(sc)
        THEN Outcome(FALSE, dist, c, calls1)
        ELSE isValidDist_Collision(sc, c, dist, verbose, calls1)

isValidDist_Feasibility(sc, c, dist, verbose, calls) ==
    LET calls1 == Append(calls, CallFeasible(verbose))
    IN  IF ~isStateFeasible(sc)
        THEN Outcome(FALSE, 0, c, calls1)
        ELSE isValidDist_Collision(sc, c, dist, verbose, calls1)

\* variant: a constraint violation stores the distance and marks nothing
isValidDist_ConstraintsDistanceOnly(sc, c, dist, verbose, calls) ==
    IF sc.kset.attached
    THEN LET calls1 == Append(calls, CallDecide(verbose))
             cer == decide(sc)
         IN  IF ~cer.satisfied
             THEN Outcome(FALSE, cer.distance,
                          [c EXCEPT !.distance = cer.distance,
                                    !.distance_known = TRUE], calls1)
             ELSE isValidDist_Feasibility(sc, c, dist, verbose, calls1)
    ELSE isValidDist_Feasibility(sc, c, dist, verbose, calls)

isValidDist_Constraints(sc, c, dist, verbose, calls) ==
    IF sc.kset.attached
    THEN LET calls1 == Append(calls, CallDecide(verbose))
             cer == decide(sc)
         IN  IF ~cer.satisfied
             THEN Outcome(FALSE, cer.distance,
                          markInvalidDist(c, cer.distance), calls1)
             ELSE isValidDist_Feasibility(sc, c, dist, verbose, calls1)
    ELSE isValidDist_Feasibility(sc, c, dist, verbose, calls)

\* variant: a miss forgets what the State already knows before evaluating
isValidDist_BoundsResets(sc, c, dist, verbose, calls) ==
    LET calls1 == Append(calls, CallBounds("state"))
    IN  IF ~satisfiesBounds(sc, "state")
        THEN Outcome(FALSE, dist, markInvalidDist(UnknownCache, 0), calls1)
        ELSE isValidDist_Constraints(sc, UnknownCache, dist, verbose,
                                     Append(calls1, CallCopy("state")))

isValidDist_Bounds(sc, c, dist, verbose, calls) ==
    LET calls1 == Append(calls, CallBounds("state"))
    IN  IF ~satisfiesBounds(sc, "state")
        THEN Outcome(FALSE, dist, markInvalidDist(c, 0), calls1)
        ELSE isValidDist_Constraints(sc, c, dist, verbose,
                                     Append(calls1, CallCopy("state")))

\* variant: a known validity alone counts as a hit
isValidDist_HitOnValidity(sc, c, dist, verbose) ==
    IF isValidityKnown(c)
    THEN Outcome(isMarkedValid(c), c.distance, c, <<>>)
    ELSE isValidDist_Bounds(sc, c, dist, verbose, <<>>)

isValidDist(sc, c, dist, verbose) ==
    IF isValidityKnown(c) /\ isGoalDistanceKnown(c)
    THEN Outcome(isMarkedValid(c), c.distance, c, <<>>)
    ELSE isValidDist_Bounds(sc, c, dist, verbose, <<>>)

\* ------------- ConstrainedPlanningStateValidityChecker::isValid(wrapped_state, verbose)
\* c is the cache block of the state obtained by getState() from wrapped_state
constrainedIsValid_Collision(sc, c, verbose, calls) ==
    LET req == IF verbose THEN collision_request_simple_verbose_
                          ELSE collision_request_simple_
        res == checkCollision(sc, req, <<>>)
        c1 == IF ~res.collision THEN markValid(c) ELSE markInvalid(c)
    IN  Outcome(~res.collision, 0, c1, Append(calls, CallCollision(req)))

\* variant: the feasibility answer is asked for and not acted on
constrainedIsValid_FeasibilityIgnored(sc, c, verbose, calls) ==
    constrainedIsValid_Collision(sc, c, verbose,
                                 Append(calls, CallFeasible(verbose)))

constrainedIsValid_Feasibility(sc, c, verbose, calls) ==
    LET calls1 == Append(calls, CallFeasible(verbose))
    IN  IF ~isStateFeasible(sc)
        THEN Outcome(FALSE, 0, markInvalid(c), calls1)
        ELSE constrainedIsValid_Collision(sc, c, verbose, calls1)

constrainedIsValid_Constraints(sc, c, verbose, calls) ==
    IF sc.kset.attached
    THEN LET calls1 == Append(calls, CallDecide(verbose))
         IN  IF ~decide(sc).satisfied
             THEN Outcome(FALSE, 0, markInvalid(c), calls1)
             ELSE constrainedIsValid_Feasibility(sc, c, verbose, calls1)
    ELSE constrainedIsValid_Feasibility(sc, c, verbose, calls)

\* variant: the unwrapped state is handed to copyToRobotState
constrainedIsValid_BoundsCopiesState(sc, c, verbose, calls) ==
    LET calls1 == Append(calls, CallBounds("wrapped_state"))
    IN  IF ~satisfiesBounds(sc, "wrapped_state")
        THEN Outcome(FALSE, 0, markInvalid(c), calls1)
        ELSE constrainedIsValid_Constraints(sc, c, verbose,
                 Append(calls1, CallCopy("state")))

constrainedIsValid_Bounds(sc, c, verbose, calls) ==
    LET calls1 == Append(calls, CallBounds("wrapped_state"))
    IN  IF ~satisfiesBounds(sc, "wrapped_state")
        THEN Outcome(FALSE, 0, markInvalid(c), calls1)
        ELSE constrainedIsValid_Constraints(sc, c, verbose,
                 Append(calls1, CallCopy("wrapped_state")))

constrainedIsValid(sc, c, verbose) ==
    IF isValidityKnown(c)
    THEN Outcome(isMarkedValid(c), 0, c, <<>>)
    ELSE constrainedIsValid_Bounds(sc, c, verbose, <<>>)

\* ------- ConstrainedPlanningStateValidityChecker::isValid(wrapped_state, dist, verbose)
constrainedIsValidDist_Collision(sc, c, dist, verbose, calls) ==
    LET req == IF verbose THEN collision_request_with_distance_verbose_
                          ELSE collision_request_with_distance_
        res == checkCollision(sc, req, <<>>)
    IN  Outcome(~res.collision, res.distance, c,
                Append(calls, CallCollision(req)))

\* variant: the infeasible branch sets dist and does not return
constrainedIsValidDist_FeasibilityNoReturn(sc, c, dist, verbose, calls) ==
    constrainedIsValidDist_Collision(sc, c, dist, verbose,
                                     Append(calls, CallFeasible(verbose)))

constrainedIsValidDist_Feasibility(sc, c, dist, verbose, calls) ==
    LET calls1 == Append(calls, CallFeasible(verbose))
    IN  IF ~isStateFeasible(sc)
        THEN Outcome(FALSE, 0, c, calls1)
        ELSE constrainedIsValidDist_Collision(sc, c, dist, verbose, calls1)

constrainedIsValidDist_Constraints(sc, c, dist, verbose, calls) ==
    IF sc.kset.attached
    THEN LET calls1 == Append(calls, CallDecide(verbose))
         IN  IF ~decide(sc).satisfied
             THEN Outcome(FALSE, dist, markInvalid(c), calls1)
             ELSE constrainedIsValidDist_Feasibility(sc, c, dist, verbose,
                                                     calls1)
    ELSE constrainedIsValidDist_Feasibility(sc, c, dist, verbose, calls)

\* variant: a bounds violation is marked without a distance
constrainedIsValidDist_BoundsNoDistance(sc, c, dist, verbose, calls) ==
    LET calls1 == Append(calls, CallBounds("wrapped_state"))
    IN  IF ~satisfiesBounds(sc, "wrapped_state")
        THEN Outcome(FALSE, dist, markInvalid(c), calls1)
        ELSE constrainedIsValidDist_Constraints(sc, c, dist, verbose,
                 Append(calls1, CallCopy("wrapped_state")))

constrainedIsValidDist_Bounds(sc, c, dist, verbose, calls) ==
    LET calls1 == Append(calls, CallBounds("wrapped_state"))
    IN  IF ~satisfiesBounds(sc, "wrapped_state")
        THEN Outcome(FALSE, dist, markInvalidDist(c, 0), calls1)
        ELSE constrainedIsValidDist_Constraints(sc, c, dist, verbose,
                 Append(calls1, CallCopy("wrapped_state")))

constrainedIsValidDist(sc, c, dist, verbose) ==
    IF isValidityKnown(c) /\ isGoalDistanceKnown(c)
    THEN Outcome(isMarkedValid(c), c.distance, c, <<>>)
    ELSE constrainedIsValidDist_Bounds(sc, c, dist, verbose, <<>>)

\* --------------------------------------------- StateValidityChecker::cost
RECURSIVE SumCost(_, _)
SumCost(cost_sources, i) ==
    IF i > Len(cost_sources) THEN 0
    ELSE cost_sources[i].cost * getVolume(cost_sources[i])
         + SumCost(cost_sources, i + 1)

\* variant: the loop assigns instead of accumulating
cost_Assigns(sc, srcs) ==
    LET res == checkCollision(sc, collision_request_with_cost_, srcs)
        n == Len(res.cost_sources)
    IN  [value |-> IF n = 0 THEN 0
                   ELSE res.cost_sources[n].cost
                        * getVolume(res.cost_sources[n]),
         calls |-> <<CallCopy("state"),
                     CallCollision(collision_request_with_cost_)>>]

cost(sc, srcs) ==
    LET res == checkCollision(sc, collision_request_with_cost_, srcs)
    IN  [value |-> SumCost(res.cost_sources, 1),
         calls |-> <<CallCopy("state"),
                     CallCollision(collision_request_with_cost_)>>]

\* variant: a negative distance is returned as reported
clearance_Literal(sc) ==
    LET res == checkCollision(sc, collision_request_with_distance_, <<>>)
    IN  [value |-> IF res.collision THEN 0 ELSE res.distance,
         calls |-> <<CallCopy("state"),
                     CallCollision(collision_request_with_distance_)>>]

\* ---------------------------------------- StateValidityChecker::clearance
clearance(sc) ==
    LET res == checkCollision(sc, collision_request_with_distance_, <<>>)
    IN  [value |-> IF res.collision THEN 0
                   ELSE IF res.distance < 0 THEN infinity ELSE res.distance,
         calls |-> <<CallCopy("state"),
                     CallCollision(collision_request_with_distance_)>>]

\* ------------------------------------------------------- the state machine
IsValidOps ==
    {"isValid", "isValidDist", "constrainedIsValid", "constrainedIsValidDist"}

DistOps == {"isValidDist", "constrainedIsValidDist"}

\* planner worker threads, each owning a checker instance
Workers == {"w1", "w2"}

Idle ==
    [pc |-> "idle", op |-> "none", verbose |-> FALSE, dist |-> 0,
     ret |-> FALSE, calls |-> <<>>]

NoCall ==
    [op |-> "none", verbose |-> FALSE, dist_in |-> 0, before |-> UnknownCache,
     ret |-> FALSE, dist |-> 0, value |-> 0, calls |-> <<>>, srcs |-> <<>>]

\* the scratch buffer of tss_ holds the State's configuration once a call
\* has copied it there
Storage(calls) ==
    IF \E i \in 1 .. Len(calls) : calls[i].op = "copyToRobotState"
    THEN "state" ELSE robot_state

Init ==
    /\ scene \in Scenes
    /\ cache = UnknownCache
    /\ verbose_ = FALSE
    /\ robot_state = "initial"
    /\ last = NoCall
    /\ workers = [w \in Workers |-> Idle]

\* one isValid call: op names the function, out is what it yields
Returned(op, verbose, dist_in, out) ==
    /\ cache' = out.cache
    /\ robot_state' = Storage(out.calls)
    /\ last' = [op |-> op, verbose |-> verbose, dist_in |-> dist_in,
                before |-> cache, ret |-> out.ret, dist |-> out.dist,
                value |-> 0, calls |-> out.calls, srcs |-> <<>>]
    /\ UNCHANGED <<scene, verbose_, workers>>

\* a cost or clearance call
Scored(op, srcs, out) ==
    /\ robot_state' = Storage(out.calls)
    /\ last' = [op |-> op, verbose |-> FALSE, dist_in |-> 0,
                before |-> cache, ret |-> FALSE, dist |-> 0,
                value |-> out.value, calls |-> out.calls, srcs |-> srcs]
    /\ UNCHANGED <<scene, cache, verbose_, workers>>

setVerbose(flag) ==
    /\ verbose_' = flag
    /\ UNCHANGED <<scene, cache, robot_state, last, workers>>

IsValid(verbose) ==
    Returned("isValid", verbose, 0, isValid(scene, cache, verbose))

IsValidDist(dist, verbose) ==
    Returned("isValidDist", verbose, dist,
             isValidDist(scene, cache, dist, verbose))

ConstrainedIsValid(verbose) ==
    Returned("constrainedIsValid", verbose, 0,
             constrainedIsValid(scene, cache, verbose))

ConstrainedIsValidDist(dist, verbose) ==
    Returned("constrainedIsValidDist", verbose, dist,
             constrainedIsValidDist(scene, cache, dist, verbose))

Cost(srcs) == Scored("cost", srcs, cost(scene, srcs))

\* variant: a State cached as invalid is scored 0 without a query
Clearance_UsesCache ==
    IF isValidityKnown(cache) /\ ~isMarkedValid(cache)
    THEN Scored("clearance", <<>>, [value |-> 0, calls |-> <<>>])
    ELSE Scored("clearance", <<>>, clearance(scene))

Clearance == Scored("clearance", <<>>, clearance(scene))

Next ==
    \/ \E flag \in BOOLEAN : setVerbose(flag)
    \/ \E verbose \in {TRUE, FALSE, verbose_} : IsValid(verbose)
    \/ \E dist \in Dist, verbose \in {TRUE, FALSE, verbose_} :
          IsValidDist(dist, verbose)
    \/ \E verbose \in {TRUE, FALSE, verbose_} : ConstrainedIsValid(verbose)
    \/ \E dist \in Dist, verbose \in {TRUE, FALSE, verbose_} :
          ConstrainedIsValidDist(dist, verbose)
    \/ \E srcs \in CostSourceSeqs : Cost(srcs)
    \/ Clearance

Spec == Init /\ [][Next]_vars

\* ------------------------------------------- two workers on the one State
\* the function a worker called, on cache block c
Run(op, c, dist, verbose) ==
    CASE op = "isValid" -> isValid(scene, c, verbose)
      [] op = "isValidDist" -> isValidDist(scene, c, dist, verbose)
      [] op = "constrainedIsValid" -> constrainedIsValid(scene, c, verbose)
      [] op = "constrainedIsValidDist" ->
            constrainedIsValidDist(scene, c, dist, verbose)

\* the same from the bounds check on, past the cache lookup
RunGates(op, c, dist, verbose) ==
    CASE op = "isValid" -> isValid_Bounds(scene, c, verbose, <<>>)
      [] op = "isValidDist" ->
            isValidDist_Bounds(scene, c, dist, verbose, <<>>)
      [] op = "constrainedIsValid" ->
            constrainedIsValid_Bounds(scene, c, verbose, <<>>)
      [] op = "constrainedIsValidDist" ->
            constrainedIsValidDist_Bounds(scene, c, dist, verbose, <<>>)

\* the test that opens each isValid: is the answer cached
Cached(op, c) ==
    IF op \in DistOps
    THEN isValidityKnown(c) /\ isGoalDistanceKnown(c)
    ELSE isValidityKnown(c)

\* a worker enters isValid on the State with its checker's verbosity
Call(w, op, dist) ==
    /\ workers[w].pc = "idle"
    /\ workers' = [workers EXCEPT ![w] =
                      [Idle EXCEPT !.pc = "called", !.op = op,
                                   !.verbose = verbose_, !.dist = dist]]
    /\ UNCHANGED <<scene, cache, verbose_, robot_state, last>>

\* it reads the cache block: a hit returns at once
Lookup(w) ==
    LET me == workers[w]
        out == Run(me.op, cache, me.dist, me.verbose)
    IN  /\ me.pc = "called"
        /\ workers' = [workers EXCEPT ![w] =
              IF Cached(me.op, cache)
              THEN [me EXCEPT !.pc = "returned", !.ret = out.ret,
                              !.dist = out.dist]
              ELSE [me EXCEPT !.pc = "evaluating"]]
        /\ UNCHANGED <<scene, cache, verbose_, robot_state, last>>

\* on a miss it runs the gates on its own scratch buffer and marks the
\* State as the cache block stands by then
Evaluate(w) ==
    LET me == workers[w]
        out == RunGates(me.op, cache, me.dist, me.verbose)
    IN  /\ me.pc = "evaluating"
        /\ cache' = out.cache
        /\ workers' = [workers EXCEPT ![w] =
              [me EXCEPT !.pc = "returned", !.ret = out.ret,
                         !.dist = out.dist, !.calls = out.calls]]
        /\ UNCHANGED <<scene, verbose_, robot_state, last>>

NextConc ==
    \/ \E w \in Workers, op \in IsValidOps :
          \E dist \in (IF op \in DistOps THEN Dist ELSE {0}) :
             Call(w, op, dist)
    \/ \E w \in Workers : Lookup(w)
    \/ \E w \in Workers : Evaluate(w)

SpecConc == Init /\ [][NextConc]_vars

\* ------------------------------------------------------------ properties
\* positions of the invocations of one collaborator in a call's record
Invoked(calls, op) == {i \in 1 .. Len(calls) : calls[i].op = op}

\* place of a collaborator in the gate chain
GateRank(op) ==
    CASE op = "satisfiesBounds" -> 1
      [] op = "copyToRobotState" -> 2
      [] op = "decide" -> 3
      [] op = "isStateFeasible" -> 4
      [] op = "checkCollision" -> 5
      [] OTHER -> 0

Gated(calls) == {i \in 1 .. Len(calls) : GateRank(calls[i].op) > 0}

\* the gate this invocation asked reported a violation
GateFailed(call) ==
    \/ call.op = "satisfiesBounds" /\ ~satisfiesBounds(scene, call.arg)
    \/ call.op = "decide" /\ ~scene.kset.satisfied
    \/ call.op = "isStateFeasible" /\ ~scene.feasible

CacheMiss == last.op \in IsValidOps /\ last.calls # <<>>

\* what a second call of the function of the last call yields now
Again(verbose, dist) ==
    CASE last.op = "isValid" -> isValid(scene, cache, verbose)
      [] last.op = "isValidDist" -> isValidDist(scene, cache, dist, verbose)
      [] last.op = "constrainedIsValid" ->
            constrainedIsValid(scene, cache, verbose)
      [] last.op = "constrainedIsValidDist" ->
            constrainedIsValidDist(scene, cache, dist, verbose)

\* C1: cache coherence.  After any isValid call, a second call of the same
\* function on the State (collaborators unchanged) returns the same result
\* (and the same distance, for the distance overloads) and invokes no
\* collaborator at all.
C1_CacheCoherence ==
    last.op \in IsValidOps =>
        \A verbose \in BOOLEAN, dist \in Dist :
            LET again == Again(verbose, dist)
            IN  /\ again.ret = last.ret
                /\ last.op \in DistOps => again.dist = last.dist
                /\ again.calls = <<>>

\* C2: short-circuit ordering.  On a cache miss the collaborators are
\* invoked in the order bounds, translation, constraint, feasibility,
\* collision, each at most once, each only after the gates before it, and
\* nothing is invoked after a gate that reported a violation.
C2_ShortCircuitOrder ==
    CacheMiss =>
        LET calls == last.calls
        IN  /\ calls[1].op = "satisfiesBounds"
            /\ \A i, j \in Gated(calls) :
                  i < j => GateRank(calls[i].op) < GateRank(calls[j].op)
            /\ Invoked(calls, "copyToRobotState") # {}
                  => Invoked(calls, "satisfiesBounds") # {}
            /\ Invoked(calls, "decide") # {}
                  => Invoked(calls, "copyToRobotState") # {}
            /\ Invoked(calls, "isStateFeasible") # {}
                  => Invoked(calls, "copyToRobotState") # {}
            /\ Invoked(calls, "checkCollision") # {}
                  => Invoked(calls, "isStateFeasible") # {}
            /\ \A i \in Gated(calls) :
                  GateFailed(calls[i]) => \A j \in Gated(calls) : j <= i

\* a miss that ran the whole chain with path constraints attached
C2_Witness ==
    /\ CacheMiss
    /\ Cardinality(Gated(last.calls)) = 5

\* C3: NaN guard.  A cache-miss evaluation that translated a configuration
\* with a NaN component returns false and never queries the collision
\* collaborator, whichever overload and variant ran.
C3_NaNGuard ==
    (CacheMiss /\ scene.hasNaN
        /\ Invoked(last.calls, "copyToRobotState") # {})
    => /\ last.ret = FALSE
       /\ Invoked(last.calls, "checkCollision") = {}

\* C4: constrained unwrap equivalence.  When the Basic checker has evaluated
\* a State with an unknown cache, the Constrained checker on the wrapped
\* counterpart (same collaborator outcomes, bounds on the wrapped state
\* agreeing with bounds on the state) gives the same verdict, and for the
\* distance overload the same distance output.
C4_UnwrapEquivalence ==
    (last.before = UnknownCache /\ scene.bounds = scene.wrapped_bounds)
    => /\ last.op = "isValid" =>
             constrainedIsValid(scene, UnknownCache, last.verbose).ret
                = last.ret
       /\ last.op = "isValidDist" =>
             LET w == constrainedIsValidDist(scene, UnknownCache,
                                             last.dist_in, last.verbose)
             IN  w.ret = last.ret /\ w.dist = last.dist

\* C5: clearance mapping.  clearance is 0 for a colliding configuration,
\* else the reported distance when it is >= 0, else +infinity.
C5_ClearanceMapping ==
    last.op = "clearance" =>
        /\ scene.collision => last.value = 0
        /\ (~scene.collision /\ scene.distance >= 0)
              => last.value = scene.distance
        /\ (~scene.collision /\ scene.distance < 0)
              => last.value = infinity

\* a collision-free configuration with a negative reported distance
C5_Witness ==
    /\ last.op = "clearance"
    /\ ~scene.collision
    /\ scene.distance < 0
    /\ last.value = infinity

\* the sum of weight times volume over the first n reported sources
RECURSIVE WeightedExtent(_, _)
WeightedExtent(srcs, n) ==
    IF n = 0 THEN 0
    ELSE WeightedExtent(srcs, n - 1) + srcs[n].cost * srcs[n].volume

\* C6: cost additivity.  cost is the sum over the reported cost sources of
\* cost weight times volume, and 0 when no source is reported.
C6_CostAdditivity ==
    last.op = "cost" =>
        /\ last.value = WeightedExtent(last.srcs, Len(last.srcs))
        /\ last.srcs = <<>> => last.value = 0

\* two different sources reported
C6_Witness ==
    /\ last.op = "cost"
    /\ Len(last.srcs) = 2
    /\ last.srcs[1] # last.srcs[2]
    /\ last.value = last.srcs[1].cost * last.srcs[1].volume
                    + last.srcs[2].cost * last.srcs[2].volume

\* C7: cost and clearance are independent of the State's cache.  Whatever
\* the cache holds they translate the state and issue their collision
\* query (cost mode resp. distance mode), and the cache block is the same
\* afterwards.
C7_ScoresLeaveCache ==
    last.op \in {"cost", "clearance"} =>
        /\ cache = last.before
        /\ Invoked(last.calls, "copyToRobotState") # {}
        /\ \E i \in Invoked(last.calls, "checkCollision") :
              last.calls[i].req =
                 IF last.op = "cost" THEN collision_request_with_cost_
                 ELSE collision_request_with_distance_

\* a score asked of a State cached as invalid with a known distance
C7_Witness ==
    /\ last.op \in {"cost", "clearance"}
    /\ last.before.validity_known
    /\ last.before.distance_known
    /\ ~last.before.marked_valid

\* C8: verbose flag propagation.  In every isValid call the collision query
\* uses the template of the call's mode (distance or not, never cost) with
\* verbose equal to the call's flag, and constraint and feasibility queries
\* are passed that same flag.
C8_VerbosePropagation ==
    last.op \in IsValidOps =>
        \A i \in 1 .. Len(last.calls) :
            LET call == last.calls[i]
            IN  /\ call.op = "checkCollision" =>
                      /\ call.req.verbose = last.verbose
                      /\ call.req.distance = (last.op \in DistOps)
                      /\ call.req.cost = FALSE
                /\ call.op \in {"decide", "isStateFeasible"} =>
                      call.verbose = last.verbose

\* a verbose call that asked constraints, feasibility and collision
C8_Witness ==
    /\ last.op \in IsValidOps
    /\ last.verbose
    /\ Invoked(last.calls, "decide") # {}
    /\ Invoked(last.calls, "isStateFeasible") # {}
    /\ Invoked(last.calls, "checkCollision") # {}

\* C9: write-back on every terminal transition.  When a cache-miss isValid
\* evaluation returns, the State's validity is known, and for the distance
\* overloads its distance is known too.
C9_WriteBack ==
    CacheMiss =>
        /\ cache.validity_known
        /\ last.op \in DistOps => cache.distance_known

\* C10: boolean-mode collision verdict.  When a boolean isValid evaluation
\* reaches the collision query, it returns the negation of the reported
\* collision flag and marks the State valid resp. invalid accordingly,
\* leaving the cached distance as it was.
C10_BooleanCollisionVerdict ==
    (last.op \in {"isValid", "constrainedIsValid"}
        /\ Invoked(last.calls, "checkCollision") # {})
    => /\ last.ret = ~scene.collision
       /\ cache.validity_known
       /\ cache.marked_valid = ~scene.collision
       /\ cache.distance_known = last.before.distance_known
       /\ cache.distance = last.before.distance

\* C11: constraint gate.  When path constraints are attached and decide
\* reports them unsatisfied, the call returns false and marks the State
\* invalid; the distance overloads output the constraint's distance and
\* cache it.  Without path constraints decide is never asked.
C11_ConstraintGate ==
    last.op \in IsValidOps =>
        /\ (Invoked(last.calls, "decide") # {} /\ ~scene.kset.satisfied) =>
              /\ last.ret = FALSE
              /\ cache.validity_known /\ ~cache.marked_valid
              /\ last.op \in DistOps =>
                    /\ last.dist = scene.kset.distance
                    /\ cache.distance_known
                    /\ cache.distance = scene.kset.distance
        /\ ~scene.kset.attached => Invoked(last.calls, "decide") = {}

\* C12: distance-mode collision outcome.  When a distance overload reaches
\* the collision query it returns the negation of the collision flag, and
\* the reported distance is both output and cached for the State.
C12_DistanceCollisionOutcome ==
    (last.op \in DistOps /\ Invoked(last.calls, "checkCollision") # {})
    => /\ last.ret = ~scene.collision
       /\ last.dist = scene.distance
       /\ cache.distance_known
       /\ cache.distance = scene.distance

\* the State's cache answers this overload without evaluation
CacheAnswers(op, c) ==
    /\ c.validity_known
    /\ op \in DistOps => c.distance_known

\* C13: cache hit.  A call on a State whose validity is known (and whose
\* distance is known, for the distance overloads) returns the cached
\* verdict (and distance), invokes nothing and leaves the cache as it was;
\* a distance overload on a State of known validity and unknown distance
\* runs the gate chain.
C13_CacheHit ==
    last.op \in IsValidOps =>
        /\ CacheAnswers(last.op, last.before) =>
              /\ last.ret = last.before.marked_valid
              /\ last.op \in DistOps => last.dist = last.before.distance
              /\ last.calls = <<>>
              /\ cache = last.before
        /\ ~CacheAnswers(last.op, last.before) =>
              /\ last.calls # <<>>
              /\ last.calls[1].op = "satisfiesBounds"

\* a distance overload asked of a State with known validity only
C13_Witness ==
    /\ last.op \in DistOps
    /\ last.before.validity_known
    /\ ~last.before.distance_known
    /\ last.calls # <<>>

\* C15: cache invariant.  Whatever calls were made on the State, a known
\* distance comes with a known validity.
C15_DistanceImpliesValidity ==
    cache.distance_known => cache.validity_known

\* a distance has been cached
C15_Witness ==
    /\ cache.distance_known
    /\ last.op \in DistOps
    /\ ~last.before.distance_known

\* C16: bounds gate violation.  On a miss whose bounds check fails the call
\* returns false after that single query; a boolean overload leaves the
\* State invalid with its distance untouched, a distance overload leaves
\* it invalid with cached distance 0; the constrained variant asks bounds
\* of the wrapped state, the basic variant of the state.
C16_BoundsViolation ==
    (CacheMiss /\ GateFailed(last.calls[1])) =>
        /\ last.ret = FALSE
        /\ last.calls =
              <<CallBounds(IF last.op \in {"constrainedIsValid",
                                           "constrainedIsValidDist"}
                           THEN "wrapped_state" ELSE "state")>>
        /\ cache.validity_known /\ ~cache.marked_valid
        /\ last.op \in DistOps =>
              cache.distance_known /\ cache.distance = 0
        /\ last.op \notin DistOps =>
              /\ cache.distance_known = last.before.distance_known
              /\ cache.distance = last.before.distance

\* the constrained distance overload on a wrapped state out of bounds
C16_Witness ==
    /\ last.op = "constrainedIsValidDist"
    /\ last.calls # <<>>
    /\ ~scene.wrapped_bounds
    /\ scene.bounds

\* C17: feasibility gate.  On a miss that reaches the feasibility query and
\* is reported infeasible, the call returns false, no collision query is
\* made, and the distance overloads output distance 0.
C17_FeasibilityGate ==
    (CacheMiss /\ Invoked(last.calls, "isStateFeasible") # {}
        /\ ~scene.feasible)
    => /\ last.ret = FALSE
       /\ Invoked(last.calls, "checkCollision") = {}
       /\ last.op \in DistOps => last.dist = 0

\* an infeasible configuration met by a distance overload whose caller
\* held another distance
C17_Witness ==
    /\ last.op \in DistOps
    /\ Invoked(last.calls, "isStateFeasible") # {}
    /\ ~scene.feasible
    /\ last.dist_in # 0

ConstrainedOps == {"constrainedIsValid", "constrainedIsValidDist"}

\* C18 as stated: in the constrained variant only the bounds query is given
\* the wrapped state; configuration translation is given the unwrapped
\* state.
C18_OnlyBoundsWrapped ==
    last.op \in ConstrainedOps =>
        \A i \in 1 .. Len(last.calls) :
            /\ last.calls[i].op = "satisfiesBounds" =>
                  last.calls[i].arg = "wrapped_state"
            /\ last.calls[i].op = "copyToRobotState" =>
                  last.calls[i].arg = "state"

\* C18 amended: in the constrained variant the bounds query and the
\* configuration translation are both given the wrapped state.
C18_BoundsAndTranslationWrapped ==
    last.op \in ConstrainedOps =>
        \A i \in 1 .. Len(last.calls) :
            last.calls[i].op \in {"satisfiesBounds", "copyToRobotState"} =>
                last.calls[i].arg = "wrapped_state"

\* a constrained call that translated the configuration
C18_Witness ==
    /\ last.op \in ConstrainedOps
    /\ Invoked(last.calls, "copyToRobotState") # {}

\* the collaborators accept the configuration: constraints (if any),
\* feasibility and collision
Admissible ==
    /\ scene.kset.attached => scene.kset.satisfied
    /\ scene.feasible
    /\ ~scene.collision

\* C19: no false positive.  The State is cached as valid, and an isValid
\* call returns true, only for a configuration that satisfies bounds (as
\* asked by the variant that evaluated it), the attached constraints,
\* feasibility and collision avoidance; the basic boolean overload marks
\* it valid only when it is free of NaN.
C19_NoFalsePositive ==
    /\ cache.marked_valid =>
          Admissible /\ (scene.bounds \/ scene.wrapped_bounds)
    /\ (last.op \in IsValidOps /\ last.ret) =>
          /\ Admissible
          /\ last.calls # <<>> => ~GateFailed(last.calls[1])
    /\ (last.op = "isValid" /\ cache.marked_valid
           /\ ~last.before.marked_valid) => ~scene.hasNaN

\* a miss that returned true and left the State cached as valid
C19_Witness ==
    /\ CacheMiss
    /\ last.ret
    /\ cache.marked_valid
    /\ scene.kset.attached

\* C20: monotone cache.  No call clears a known validity or a known
\* distance, and (bounds answering alike for the state and its wrapped
\* counterpart) no call changes the verdict once it is cached.
C20_MonotoneCache ==
    [][/\ cache.validity_known => cache'.validity_known
       /\ cache.distance_known => cache'.distance_known
       /\ (cache.validity_known /\ scene.bounds = scene.wrapped_bounds)
             => cache'.marked_valid = cache.marked_valid]_vars

\* a distance overload re-evaluated a State cached by a boolean overload
C20_Witness ==
    /\ last.op \in DistOps
    /\ last.calls # <<>>
    /\ last.before.validity_known
    /\ last.before.marked_valid
    /\ cache.marked_valid
    /\ scene.bounds = scene.wrapped_bounds

\* C14: concurrent evaluation of one State.  When two workers have both
\* returned from the same isValid function on a State that was unknown,
\* their verdicts agree and the cache block is the one a single evaluation
\* leaves; and at no moment does the cache block show a known distance
\* without a known validity or a valid mark without a known validity.
C14_ConcurrentEvaluation ==
    /\ cache.distance_known => cache.validity_known
    /\ cache.marked_valid => cache.validity_known
    /\ (/\ \A w \in Workers : workers[w].pc = "returned"
        /\ \A a, b \in Workers : workers[a].op = workers[b].op)
       => \A a, b \in Workers :
             /\ workers[a].ret = workers[b].ret
             /\ cache = Run(workers[a].op, UnknownCache,
                            workers[a].dist, workers[a].verbose).cache

====
